---- MODULE Spec2Model ----
(***************************************************************************)
(* TidyAI: the App component (image selection, analysis, reset, chat       *)
(* toggle), the ChatInterface component (transcript, API-facing history,   *)
(* handleSend) and the chat client sendChatMessage of the Gemini service.  *)
(*                                                                         *)
(* React commits the state updates of one event handler (or of one         *)
(* continuation after an await) before the next event is delivered, so     *)
(* every handler is one action and the component tree is re-rendered as    *)
(* part of it (Render).                                                    *)
(***************************************************************************)
EXTENDS Integers, Sequences, FiniteSets, TLC

\* ------------------------------------------------------------------ bounds
MaxUploads == 2     \* files the user hands to the upload zone in one run
MaxSends == 3       \* handleSend calls that pass the guard in one run
MaxChats == 3       \* ChatInterface instances alive at once (mounted, or
                    \* unmounted with a request still outstanding)
MaxHistory == 2     \* length of a history handed to sendChatMessage directly
MaxFragments == 4   \* fragments a text handed to cleanText is made of
MaxItems == 3       \* action items in an analysis handed to the dashboard

\* --------------------------------------------------------------- constants
Null == "null"            \* JS null
Absent == "undefined"     \* a missing optional field / argument

\* An uploaded image is named by the order in which the user handed it over; one
\* uploaded image is one session. NoImage stands for null and for a missing image.
NoImage == 0
Images == 1..MaxUploads
HasImage(img) == img # NoImage

\* A string is truthy in JS when it is present and not empty.
Truthy(s) == s # Absent /\ s # Null /\ s # ""

WELCOME_TEXT == "WELCOME"
SEED_CAPTION == "SEED_CAPTION"
SEED_ACK == "SEED_ACK"
APOLOGY_TEXT == "APOLOGY_CONNECTION"
FALLBACK_NO_KEY == "FALLBACK_NO_KEY"
FALLBACK_EMPTY == "FALLBACK_EMPTY"
FALLBACK_ERROR == "FALLBACK_ERROR"
Fallbacks == {FALLBACK_NO_KEY, FALLBACK_EMPTY, FALLBACK_ERROR}

ERR_CONFIG == "ERR_CONFIG"
ERR_REGION == "ERR_REGION"
ERR_RATE == "ERR_RATE"
ERR_KEY == "ERR_KEY"
ERR_GENERIC == "ERR_GENERIC"
\* the messages analyzeRoomImage rethrows from its catch block
AnalysisErrors == {ERR_REGION, ERR_RATE, ERR_KEY, ERR_GENERIC}

\* what the user can type into the chat input, and String.prototype.trim
Inputs == {"", " ", " q1 "}
Trim(s) == IF s = " q1 " THEN "q1" ELSE IF s = " " THEN "" ELSE s

\* reply texts the model can produce; "" and Absent are an empty response.text
Replies == {"r1"}
ModelOutcomes ==
  [kind : {"response"}, text : Replies \cup {"", Absent}]
    \cup {[kind |-> "throw", text |-> Absent]}

\* ---------------------------------------------------------------- strings
\* The texts the sanitizer works on are sequences of characters. A character
\* outside ASCII is written by its code point ("U+044F").
UPPER == << "A", "B", "C", "D", "E", "F", "G", "H", "I", "J", "K", "L", "M",
            "N", "O", "P", "Q", "R", "S", "T", "U", "V", "W", "X", "Y", "Z" >>
LOWER == << "a", "b", "c", "d", "e", "f", "g", "h", "i", "j", "k", "l", "m",
            "n", "o", "p", "q", "r", "s", "t", "u", "v", "w", "x", "y", "z" >>

IsUpper(c) == \E i \in DOMAIN UPPER : UPPER[i] = c
IsLatin(c) == IsUpper(c) \/ \E i \in DOMAIN LOWER : LOWER[i] = c

\* case folding of the i flag, for the characters the patterns name
ToLower(c) == IF IsUpper(c) THEN LOWER[CHOOSE i \in DOMAIN UPPER : UPPER[i] = c] ELSE c
LowerCase(s) == [i \in 1..Len(s) |-> ToLower(s[i])]

\* \s, and the line terminators that . does not match
IsSpace(c) == c \in {" ", "\t", "\n", "\r", "\f"}
IsLineTerminator(c) == c \in {"\n", "\r"}

\* a JS value that is a string or is missing
Undefined == [t |-> "undefined", v |-> << >>]
Str(chars) == [t |-> "string", v |-> chars]

\* ------------------------------------------------------------ data shapes
\* GeminiPart: text?: string, inlineData?: {mimeType, data}
InlinePart(m, d) == [text |-> Absent, mimeType |-> m, data |-> d]
TextPart(t) == [text |-> t, mimeType |-> Absent, data |-> NoImage]
Turn(role, parts) == [role |-> role, parts |-> parts]
Message(role, text) == [role |-> role, text |-> text]

WELCOME_MESSAGE == Message("model", WELCOME_TEXT)

\* A slip of the seed: the caption put before the image.
createInitialHistoryCaptionFirst(imageBase64) ==
  << Turn("user", << TextPart(SEED_CAPTION), InlinePart("image/jpeg", imageBase64) >>),
     Turn("model", << TextPart(SEED_ACK) >>) >>

createInitialHistory(imageBase64) ==
  << Turn("user", << InlinePart("image/jpeg", imageBase64), TextPart(SEED_CAPTION) >>),
     Turn("model", << TextPart(SEED_ACK) >>) >>

\* the analysis state of the App: null, or the RoomAnalysis returned for an image
NullAnalysis == [image |-> NoImage, data |-> Undefined]

ChatIds == 1..MaxChats
NoChat ==
  [alive |-> FALSE, mounted |-> FALSE, slot |-> Null, image |-> NoImage,
   messages |-> << >>, input |-> "", isLoading |-> FALSE, history |-> << >>,
   exchanges |-> 0]

\* ------------------------------------------------------------------ state
VARIABLES
  apiKey,         \* whether VITE_API_KEY is configured (fixed at module load)
  selectedImage,  \* App state
  analysis,       \* App state: NullAnalysis or the result of one analysis
  isAnalyzing,    \* App state
  showChat,       \* App state
  error,          \* App state: Null or a message
  wide,           \* the viewport is at least the xl breakpoint
  files,          \* number of files handed to the upload zone so far
  sends,          \* number of handleSend calls so far
  reading,        \* images whose FileReader has not fired onload yet
  analysisReqs,   \* analyzeRoomImage calls in flight
  chats,          \* the ChatInterface instances
  chatReqs,       \* sendChatMessage calls in flight
  call            \* a direct call of a service function (NoCall in the App)

vars == << apiKey, selectedImage, analysis, isAnalyzing, showChat, error, wide,
           files, sends, reading, analysisReqs, chats, chatReqs, call >>

\* a direct call of sendChatMessage: its arguments, how far it got, and its result
NoResult == [kind |-> "none", text |-> Absent]
NoOutcome == [kind |-> "none", text |-> Absent]
\* nothing rendered by the dashboard yet
NoView ==
  [tier |-> "none", discard |-> << >>, organize |-> << >>, buy |-> << >>,
   panels |-> {}, message |-> FALSE]

NoCall ==
  [op |-> "none", pc |-> "none", key |-> FALSE, history |-> << >>, newMessage |-> "",
   base64Image |-> NoImage, contents |-> << >>, outcome |-> NoOutcome,
   result |-> NoResult, text |-> Undefined, cleaned |-> << >>,
   response |-> NoOutcome, raw |-> Undefined, data |-> Undefined,
   extracted |-> << >>, view |-> NoView]

\* ------------------------------------------------------- the sanitizer
\* [A-Za-z\s&:\-.]
InParenClass(c) == IsLatin(c) \/ IsSpace(c) \/ c \in {"&", ":", "-", "."}

\* the number of characters at the start of s that are in the class
RECURSIVE ClassRun(_)
ClassRun(s) ==
  IF s = << >> \/ ~InParenClass(Head(s)) THEN 0 ELSE 1 + ClassRun(Tail(s))

\* the length of the match of \([A-Za-z\s&:\-.]+\) at the start of s, 0 for none;
\* the class holds no parenthesis, so the greedy run is the only candidate
ParenMatch(s) ==
  IF s = << >> \/ Head(s) # "(" THEN 0
  ELSE LET run == ClassRun(Tail(s)) IN
       IF run >= 1 /\ Len(s) >= run + 2 /\ s[run + 2] = ")" THEN run + 2 ELSE 0

\* replace(/\([A-Za-z\s&:\-.]+\)/g, ""): leftmost matches, left to right
RECURSIVE RemoveParens(_)
RemoveParens(s) ==
  IF s = << >> THEN << >>
  ELSE LET n == ParenMatch(s) IN
       IF n > 0 THEN RemoveParens(SubSeq(s, n + 1, Len(s)))
       ELSE << Head(s) >> \o RemoveParens(Tail(s))

Labels ==
  { << "d", "e", "s", "c", "r", "i", "p", "t", "i", "o", "n" >>,
    << "t", "r", "a", "n", "s", "l", "a", "t", "i", "o", "n" >>,
    << "c", "o", "n", "t", "e", "x", "t" >>,
    << "n", "o", "t", "e" >>,
    << "a", "n", "a", "l", "y", "s", "i", "s" >> }

RECURSIVE DropSpaces(_)
DropSpaces(s) ==
  IF s # << >> /\ IsSpace(Head(s)) THEN DropSpaces(Tail(s)) ELSE s

\* replace(/^(Description|Translation|Context|Note|Analysis):\s*/i, ""): one label
\* at the very start of the text (no m flag), its colon and the blanks after it
StripLabel(s) ==
  LET found == {l \in Labels :
                  /\ Len(s) >= Len(l) + 1
                  /\ LowerCase(SubSeq(s, 1, Len(l))) = l
                  /\ s[Len(l) + 1] = ":"}
  IN IF found = {} THEN s
     ELSE LET l == CHOOSE x \in found : TRUE
          IN DropSpaces(SubSeq(s, Len(l) + 2, Len(s)))

\* A slip of cleanText: the pattern without the g flag removes the first marker only.
RemoveBoldFirst(s) ==
  LET at == {i \in 1..(Len(s) - 1) : s[i] = "*" /\ s[i + 1] = "*"} IN
  IF at = {} THEN s
  ELSE LET i == CHOOSE x \in at : \A y \in at : x <= y
       IN SubSeq(s, 1, i - 1) \o SubSeq(s, i + 2, Len(s))

\* replace(/\*\*/g, "")
RECURSIVE RemoveBold(_)
RemoveBold(s) ==
  IF Len(s) < 2 THEN s
  ELSE IF s[1] = "*" /\ s[2] = "*" THEN RemoveBold(SubSeq(s, 3, Len(s)))
  ELSE << Head(s) >> \o RemoveBold(Tail(s))

WAIT == << "w", "a", "i", "t", "," >>

\* replace(/Wait,.*$/i, ""): . matches no line terminator and $ (no m flag) only
\* the end of the text, so the match starts at the first "Wait," that has no line
\* terminator anywhere after it
TruncateWait(s) ==
  LET starts == {i \in 1..Len(s) :
                   /\ i + Len(WAIT) - 1 <= Len(s)
                   /\ LowerCase(SubSeq(s, i, i + Len(WAIT) - 1)) = WAIT
                   /\ \A j \in (i + Len(WAIT))..Len(s) : ~IsLineTerminator(s[j])}
  IN IF starts = {} THEN s
     ELSE SubSeq(s, 1, (CHOOSE i \in starts : \A k \in starts : i <= k) - 1)

RECURSIVE DropSpacesAtEnd(_)
DropSpacesAtEnd(s) ==
  IF s # << >> /\ IsSpace(s[Len(s)]) THEN DropSpacesAtEnd(SubSeq(s, 1, Len(s) - 1))
  ELSE s

\* String.prototype.trim
TrimChars(s) == DropSpacesAtEnd(DropSpaces(s))

\* cleanText(text): "" for a missing or empty text, else the four replacements in
\* the order of the code, then trim
cleanText(text) ==
  IF text.t = "undefined" \/ text.v = << >> THEN << >>
  ELSE TrimChars(TruncateWait(RemoveBold(StripLabel(RemoveParens(text.v)))))

\* ------------------------------------------------------ the JSON extractor
\* three backticks (U+0060)
FENCE == << "U+0060", "U+0060", "U+0060" >>
FENCE_JSON == FENCE \o << "j", "s", "o", "n" >>

\* replace(/<fence>\n?/g, ""): every occurrence of the fence, left to right, each
\* with the line break that follows it, if any
RECURSIVE RemoveFence(_, _)
RemoveFence(s, fence) ==
  IF Len(s) < Len(fence) THEN s
  ELSE IF SubSeq(s, 1, Len(fence)) = fence
  THEN LET rest == SubSeq(s, Len(fence) + 1, Len(s))
       IN RemoveFence(IF rest # << >> /\ Head(rest) = "\n" THEN Tail(rest) ELSE rest,
                      fence)
  ELSE << Head(s) >> \o RemoveFence(Tail(s), fence)

\* extractJSON trusting the fence removal: no search for the braces
extractJSONFencesOnly(text) == RemoveFence(RemoveFence(text, FENCE_JSON), FENCE)

\* extractJSON with a lazy quantifier, /\{[\s\S]*?\}/: the match ends at the first
\* closing brace after the first opening one
extractJSONLazy(text) ==
  LET cleaned == RemoveFence(RemoveFence(text, FENCE_JSON), FENCE)
      opens == {i \in 1..Len(cleaned) : cleaned[i] = "{"}
      first == CHOOSE i \in opens : \A k \in opens : i <= k
      closes == {j \in 1..Len(cleaned) : cleaned[j] = "}" /\ j > first}
  IN IF opens = {} \/ closes = {} THEN cleaned
     ELSE SubSeq(cleaned, first, CHOOSE j \in closes : \A k \in closes : j <= k)

\* extractJSON: the fences removed, then the match of /\{[\s\S]*\}/ (from the first
\* opening brace to the last closing brace after it), or the text without fences
extractJSON(text) ==
  LET cleaned == RemoveFence(RemoveFence(text, FENCE_JSON), FENCE)
      opens == {i \in 1..Len(cleaned) : cleaned[i] = "{"}
      first == CHOOSE i \in opens : \A k \in opens : i <= k
      closes == {j \in 1..Len(cleaned) : cleaned[j] = "}" /\ j > first}
  IN IF opens = {} \/ closes = {} THEN cleaned
     ELSE SubSeq(cleaned, first, CHOOSE j \in closes : \A k \in closes : k <= j)

\* ------------------------------------------------------ the analysis client
Num(n) == [t |-> "number", v |-> n]
Arr(a) == [t |-> "array", v |-> a]

\* the objects of the RoomAnalysis shape; a field the JSON text lacks is Undefined
ActionItem(id, title, description, difficulty, category) ==
  [id |-> id, title |-> title, description |-> description,
   difficulty |-> difficulty, category |-> category]

Utilization(name, value) == [name |-> name, value |-> value]

RoomAnalysis(roomType, clutterLevel, summary, spaceUtilization, actionItems, aestheticSuggestions) ==
  [roomType |-> roomType, clutterLevel |-> clutterLevel, summary |-> summary,
   spaceUtilization |-> spaceUtilization, actionItems |-> actionItems,
   aestheticSuggestions |-> aestheticSuggestions]

EASY == Str(<< "E", "a", "s", "y" >>)
HARD == Str(<< "H", "a", "r", "d" >>)
DISCARD == Str(<< "D", "i", "s", "c", "a", "r", "d" >>)
BUY == Str(<< "B", "u", "y" >>)

\* texts with the artifacts the sanitizer is there for; the last one has a leaked
\* thought on the first of its two lines
TEXT_ROOM == Str(<< "U+044F", " ", "(", "a", ")" >>)
TEXT_BOLD == Str(<< "*", "*", "U+044F", "*", "*" >>)
TEXT_LABEL == Str(<< "N", "o", "t", "e", ":", " ", "U+044F" >>)
TEXT_WAIT == Str(<< "U+044F", " ", "W", "a", "i", "t", ",", " ", "a" >>)
TEXT_PLAIN == Str(<< "a" >>)
TEXT_LINES == Str(<< "W", "a", "i", "t", ",", " ", "a", "\n", "U+044F" >>)

\* JSON texts the model can answer with, each written as one symbol between its
\* braces, and the value JSON.parse makes of it
DOC_FULL ==
  RoomAnalysis(TEXT_ROOM, Num(85), TEXT_BOLD,
    Arr(<< Utilization(TEXT_LABEL, Num(60)), Utilization(TEXT_PLAIN, Num(40)) >>),
    Arr(<< ActionItem(Str(<< "1" >>), TEXT_ROOM, TEXT_WAIT, EASY, DISCARD),
           ActionItem(Str(<< "2" >>), TEXT_BOLD, TEXT_PLAIN, HARD, BUY) >>),
    Arr(<< TEXT_WAIT, TEXT_PLAIN >>))

EmptyObject ==
  RoomAnalysis(Undefined, Undefined, Undefined, Undefined, Undefined, Undefined)

Docs ==
  [n \in {"FULL", "LINES", "OVER", "NEGATIVE", "NO_CLUTTER", "NO_ROOM_TYPE",
          "NO_ITEMS", "NO_SUGGESTIONS", "NO_UTILIZATION", "ITEM_NO_DIFFICULTY",
          "EMPTY_LISTS"} |->
     CASE n = "FULL" -> DOC_FULL
       [] n = "LINES" -> [DOC_FULL EXCEPT !.summary = TEXT_LINES]
       [] n = "OVER" -> [DOC_FULL EXCEPT !.clutterLevel = Num(150)]
       [] n = "NEGATIVE" -> [DOC_FULL EXCEPT !.clutterLevel = Num(-5)]
       [] n = "NO_CLUTTER" -> [DOC_FULL EXCEPT !.clutterLevel = Undefined]
       [] n = "NO_ROOM_TYPE" -> [DOC_FULL EXCEPT !.roomType = Undefined]
       [] n = "NO_ITEMS" -> [DOC_FULL EXCEPT !.actionItems = Undefined]
       [] n = "NO_SUGGESTIONS" -> [DOC_FULL EXCEPT !.aestheticSuggestions = Undefined]
       [] n = "NO_UTILIZATION" -> [DOC_FULL EXCEPT !.spaceUtilization = Undefined]
       [] n = "ITEM_NO_DIFFICULTY" ->
            [DOC_FULL EXCEPT !.actionItems = Arr(<<
               ActionItem(Str(<< "1" >>), TEXT_PLAIN, TEXT_PLAIN, Undefined, DISCARD) >>)]
       [] n = "EMPTY_LISTS" ->
            [DOC_FULL EXCEPT !.actionItems = Arr(<< >>), !.spaceUtilization = Arr(<< >>),
                             !.aestheticSuggestions = Arr(<< >>)]]

\* JSON.parse on the texts of the model: an object for "{}" and for a known JSON
\* text between braces, a SyntaxError for every other text
JSONParse(s) ==
  IF s = << "{", "}" >> THEN [ok |-> TRUE, value |-> EmptyObject]
  ELSE IF Len(s) = 3 /\ s[1] = "{" /\ s[3] = "}" /\ s[2] \in DOMAIN Docs
  THEN [ok |-> TRUE, value |-> Docs[s[2]]]
  ELSE [ok |-> FALSE, value |-> EmptyObject]

\* The message of the SyntaxError is the engine's: a fixed text alone, or a fixed
\* text that quotes the text being parsed (V8: Unexpected token 'q', "quota" is
\* not valid JSON). The texts of the model are shorter than the quoted window.
SyntaxErrorMessages(s) ==
  { << "SyntaxError" >>, << "SyntaxError", " " >> \o s }

\* the messages of the other errors thrown inside the try block
MSG_EMPTY_RESPONSE == << "EmptyResponse" >>
MSG_TYPE_ERROR == << "TypeError" >>

KW_USER_LOCATION ==
  << "U", "s", "e", "r", " ", "l", "o", "c", "a", "t", "i", "o", "n", " ", "i", "s",
     " ", "n", "o", "t", " ", "s", "u", "p", "p", "o", "r", "t", "e", "d" >>
KW_FAILED_PRECONDITION ==
  << "F", "A", "I", "L", "E", "D", "_", "P", "R", "E", "C", "O", "N", "D", "I", "T",
     "I", "O", "N" >>
KW_REGION ==
  << "R", "e", "g", "i", "o", "n", " ", "n", "o", "t", " ", "s", "u", "p", "p", "o",
     "r", "t", "e", "d" >>
KW_LOCATION ==
  << "l", "o", "c", "a", "t", "i", "o", "n", " ", "i", "s", " ", "n", "o", "t", " ",
     "s", "u", "p", "p", "o", "r", "t", "e", "d" >>
KW_400 ==
  << "4", "0", "0" >>
KW_NOT_SUPPORTED ==
  << "n", "o", "t", " ", "s", "u", "p", "p", "o", "r", "t", "e", "d" >>
KW_QUOTA ==
  << "q", "u", "o", "t", "a" >>
KW_429 ==
  << "4", "2", "9" >>
KW_API_KEY ==
  << "A", "P", "I", "_", "K", "E", "Y" >>
KW_INVALID ==
  << "i", "n", "v", "a", "l", "i", "d" >>

\* String.prototype.includes
Contains(s, k) ==
  \E i \in 1..(Len(s) - Len(k) + 1) : SubSeq(s, i, i + Len(k) - 1) = k

\* A slip of the catch block: the test for the rate limit put before the one for
\* the region.
ClassifyRateFirst(errorString) ==
  IF Contains(errorString, KW_QUOTA) \/ Contains(errorString, KW_429)
  THEN ERR_RATE
  ELSE IF \/ Contains(errorString, KW_USER_LOCATION)
          \/ Contains(errorString, KW_FAILED_PRECONDITION)
          \/ Contains(errorString, KW_REGION)
          \/ Contains(errorString, KW_LOCATION)
          \/ (Contains(errorString, KW_400) /\ Contains(errorString, KW_NOT_SUPPORTED))
  THEN ERR_REGION
  ELSE IF Contains(errorString, KW_API_KEY) \/ Contains(errorString, KW_INVALID)
  THEN ERR_KEY
  ELSE ERR_GENERIC

\* the classification of the catch block, by the first group of substrings found
Classify(errorString) ==
  IF \/ Contains(errorString, KW_USER_LOCATION)
     \/ Contains(errorString, KW_FAILED_PRECONDITION)
     \/ Contains(errorString, KW_REGION)
     \/ Contains(errorString, KW_LOCATION)
     \/ (Contains(errorString, KW_400) /\ Contains(errorString, KW_NOT_SUPPORTED))
  THEN ERR_REGION
  ELSE IF Contains(errorString, KW_QUOTA) \/ Contains(errorString, KW_429)
  THEN ERR_RATE
  ELSE IF Contains(errorString, KW_API_KEY) \/ Contains(errorString, KW_INVALID)
  THEN ERR_KEY
  ELSE ERR_GENERIC

\* A slip of analyzeRoomImage: the item rebuilt from its two texts, without ...item.
CleanItemWithoutSpread(item) ==
  ActionItem(Undefined, Str(cleanText(item.title)), Str(cleanText(item.description)),
             Undefined, Undefined)

\* ({...item, title: cleanText(item.title), description: cleanText(item.description)})
CleanItem(item) ==
  [item EXCEPT !.title = Str(cleanText(@)), !.description = Str(cleanText(@))]

\* ({...s, name: cleanText(s.name)})
CleanUtilization(s) == [s EXCEPT !.name = Str(cleanText(@))]

\* cleanedData, for a rawData whose three lists are arrays
CleanData(rawData) ==
  [rawData EXCEPT
     !.roomType = Str(cleanText(@)),
     !.summary = Str(cleanText(@)),
     !.actionItems = Arr([i \in 1..Len(@.v) |-> CleanItem(@.v[i])]),
     !.aestheticSuggestions = Arr([i \in 1..Len(@.v) |-> Str(cleanText(@.v[i]))]),
     !.spaceUtilization = Arr([i \in 1..Len(@.v) |-> CleanUtilization(@.v[i])])]

\* how a call of analyzeRoomImage ends: the value returned, or the message of the
\* Error thrown; raw is rawData when JSON.parse returned
AnalysisReturned(raw, data) ==
  [kind |-> "return", text |-> Absent, raw |-> raw, data |-> data]
AnalysisThrown(msg, raw) ==
  [kind |-> "throw", text |-> msg, raw |-> raw, data |-> Undefined]

\* A slip of the service: a check that never throws.
ensureApiAvailableSkipped(key) == TRUE

\* ensureApiAvailable returns (TRUE) or throws (FALSE)
ensureApiAvailable(key) == key

\* the try block after the await, for the outcome of generateContent: the ways
\* the call can end (more than one where the engine's error message decides)
AnalyzeResults(outcome) ==
  IF outcome.kind = "throw"
  THEN {AnalysisThrown(Classify(outcome.text), Undefined)}
  ELSE IF outcome.text.t = "undefined" \/ outcome.text.v = << >>
  THEN {AnalysisThrown(Classify(MSG_EMPTY_RESPONSE), Undefined)}
  ELSE LET parsed == JSONParse(extractJSON(outcome.text.v))
           rawData == parsed.value
       IN IF ~parsed.ok
          THEN {AnalysisThrown(Classify(m), Undefined) :
                  m \in SyntaxErrorMessages(extractJSON(outcome.text.v))}
          ELSE IF \/ rawData.actionItems.t # "array"
                  \/ rawData.aestheticSuggestions.t # "array"
                  \/ rawData.spaceUtilization.t # "array"
          THEN {AnalysisThrown(Classify(MSG_TYPE_ERROR), rawData)}
          ELSE {AnalysisReturned(rawData, CleanData(rawData))}

\* analyzeRoomImage up to the await: ensureApiAvailable outside the try block, then
\* ai!.models, a TypeError inside the try block when ai is null. "request" stands
\* for the call of generateContent having been issued.
AnalyzeStart(key) ==
  IF ~ensureApiAvailable(key) THEN AnalysisThrown(ERR_CONFIG, Undefined)
  ELSE IF ~key THEN AnalysisThrown(Classify(MSG_TYPE_ERROR), Undefined)
  ELSE [kind |-> "request", text |-> Absent, raw |-> Undefined, data |-> Undefined]

\* what generateContent can do for an analysis: throw an error whose message
\* names up to two of the substrings the catch block looks for, or answer with no
\* text, or with a text: a JSON text or prose, bare or between fences or prose
MSG_OTHER == << "NetworkError" >>
Keywords ==
  { KW_USER_LOCATION, KW_FAILED_PRECONDITION, KW_REGION, KW_LOCATION, KW_400,
    KW_NOT_SUPPORTED, KW_QUOTA, KW_429, KW_API_KEY, KW_INVALID }
UpstreamMessages ==
  {a \o << " " >> \o b : a, b \in Keywords \cup {MSG_OTHER}}

ResponseBodies ==
  {<< "{", n, "}" >> : n \in DOMAIN Docs}
    \cup { << "{", "}" >>, << "{", "FULL" >>, << >>, KW_QUOTA, KW_INVALID, KW_429,
           << "U+044F" >> }
ResponsePrefixes ==
  { << >>, FENCE_JSON \o << "\n" >>, FENCE \o << "\n" >>, << "U+044F", " " >> }
ResponseSuffixes ==
  { << >>, << "\n" >> \o FENCE, << " ", "U+044F" >> }
ResponseTexts ==
  {Undefined} \cup
    {Str(p \o b \o x) : p \in ResponsePrefixes, b \in ResponseBodies, x \in ResponseSuffixes}

AnalysisOutcomes ==
  {[kind |-> "throw", text |-> m] : m \in UpstreamMessages}
    \cup {[kind |-> "response", text |-> t] : t \in ResponseTexts}

\* the values analyzeRoomImage returns to the App: those of two of the JSON texts
\* (the App does nothing that depends on the value)
AppAnalysisData ==
  {res.data : res \in {x \in UNION {AnalyzeResults([kind |-> "response",
                                                      text |-> Str(<< "{", n, "}" >>)]) :
                                       n \in {"FULL", "OVER"}} : x.kind = "return"}}

\* --------------------------------------------------- the chat client
\* history.map(msg => ({role, parts: msg.parts.map(...)})): one wire part per part
ToWirePart(part) ==
  IF Truthy(part.text) THEN TextPart(part.text)
  ELSE IF HasImage(part.data) THEN InlinePart(part.mimeType, part.data)
  ELSE TextPart("")

ToWireTurn(msg) ==
  Turn(msg.role, [j \in 1..Len(msg.parts) |-> ToWirePart(msg.parts[j])])

\* A slip of the client: the text part pushed before the image part.
NewPartsTextFirst(newMessage, base64Image) ==
  << TextPart(newMessage) >>
    \o (IF HasImage(base64Image) THEN << InlinePart("image/jpeg", base64Image) >> ELSE << >>)

\* the parts of the new user turn: the image first (when one is passed), then the text
NewParts(newMessage, base64Image) ==
  (IF HasImage(base64Image) THEN << InlinePart("image/jpeg", base64Image) >> ELSE << >>)
    \o << TextPart(newMessage) >>

\* the contents sendChatMessage submits: a fresh array built from history, plus one turn
SendChatContents(history, newMessage, base64Image) ==
  Append([i \in 1..Len(history) |-> ToWireTurn(history[i])],
         Turn("user", NewParts(newMessage, base64Image)))

\* A slip of the client: building the request in the caller's array
\* (const contents = history) would leave the new turn in the history.
SendChatHistoryAliased(history, newMessage, base64Image) ==
  Append(history, Turn("user", NewParts(newMessage, base64Image)))

\* the caller's history array after sendChatMessage built its request: map() copies,
\* and push() acts on the copy
SendChatHistoryAfter(history, newMessage, base64Image) ==
  history

Returned(text) == [kind |-> "return", text |-> text]
Thrown == [kind |-> "throw", text |-> Absent]

\* A slip of the client: a catch block that rethrows.
SendChatResultRethrows(key, outcome) ==
  IF ~key THEN Returned(FALLBACK_NO_KEY)
  ELSE IF outcome.kind = "throw" THEN Thrown
  ELSE Returned(IF Truthy(outcome.text) THEN outcome.text ELSE FALLBACK_EMPTY)

\* how the promise of sendChatMessage settles, given the outcome of generateContent
SendChatResult(key, outcome) ==
  IF ~key THEN Returned(FALLBACK_NO_KEY)
  ELSE IF outcome.kind = "throw" THEN Returned(FALLBACK_ERROR)
  ELSE Returned(IF Truthy(outcome.text) THEN outcome.text ELSE FALLBACK_EMPTY)

\* --------------------------------------------------- rendering the chats
Visible(an, img) == an # NullAnalysis /\ HasImage(img)

MountedAt(chs, slot) ==
  {c \in ChatIds : chs[c].alive /\ chs[c].mounted /\ chs[c].slot = slot}

Outstanding(reqs, c) == \E r \in reqs : r.chat = c

FreeIds(chs) == {c \in ChatIds : ~chs[c].alive}

\* A slip of ChatInterface: the state kept outside the component, so that a newly
\* mounted instance takes over the cell of one that is no longer mounted, even
\* while a handleSend of that one still awaits its reply.
LowestUnmounted(chs) ==
  CHOOSE c \in ChatIds : ~chs[c].mounted /\ \A d \in ChatIds : ~chs[d].mounted => c <= d

LowestFree(chs) == CHOOSE c \in FreeIds(chs) : \A d \in FreeIds(chs) : c <= d

\* useState / useRef initial values of a ChatInterface mounted with this image
NewChat(slot, img) ==
  [alive |-> TRUE, mounted |-> TRUE, slot |-> slot, image |-> img,
   messages |-> << WELCOME_MESSAGE >>, input |-> "", isLoading |-> FALSE,
   history |-> createInitialHistory(img), exchanges |-> 0]

\* An unmounted instance loses its React state; its history array lives on only in
\* the closure of a handleSend that is still awaiting its reply.
Unmounted(ch, busy) ==
  IF busy
  THEN [ch EXCEPT !.mounted = FALSE, !.messages = << >>, !.input = "",
                  !.isLoading = FALSE]
  ELSE NoChat

RenderSlot(chs, reqs, slot, want, img) ==
  LET have == MountedAt(chs, slot) IN
  IF want /\ have = {}
  THEN [chs EXCEPT ![LowestFree(chs)] = NewChat(slot, img)]
  ELSE IF ~want /\ have # {}
  THEN [c \in ChatIds |->
          IF c \in have THEN Unmounted(chs[c], Outstanding(reqs, c)) ELSE chs[c]]
  ELSE chs

\* the mobile ChatInterface is rendered only under {showChat && ...}
MobileWanted(vis, show) == vis /\ show

\* AnalysisResults is rendered when analysis && selectedImage; it holds one
\* ChatInterface for the desktop layout and, when showChat, one for the mobile layout
Render(chs, reqs, an, img, show) ==
  LET vis == Visible(an, img)
      d == RenderSlot(chs, reqs, "desktop", vis, img)
  IN RenderSlot(d, reqs, "mobile", MobileWanted(vis, show), img)

\* the model has instances left for what this render mounts
CanRender(chs, an, img, show) ==
  LET vis == Visible(an, img)
      needs == (IF vis /\ MountedAt(chs, "desktop") = {} THEN 1 ELSE 0)
               + (IF MobileWanted(vis, show) /\ MountedAt(chs, "mobile") = {} THEN 1 ELSE 0)
  IN needs <= Cardinality(FreeIds(chs))

\* the layout the user can reach at this viewport width (hidden xl:block / xl:hidden)
Reachable(ch) ==
  ch.alive /\ ch.mounted /\ (IF ch.slot = "desktop" THEN wide ELSE ~wide)

\* ------------------------------------------------------------- the App
Init ==
  /\ apiKey \in BOOLEAN
  /\ selectedImage = NoImage
  /\ analysis = NullAnalysis
  /\ isAnalyzing = FALSE
  /\ showChat = FALSE
  /\ error = Null
  /\ wide \in BOOLEAN
  /\ files = 0
  /\ sends = 0
  /\ reading = {}
  /\ analysisReqs = {}
  /\ chats = [c \in ChatIds |-> NoChat]
  /\ chatReqs = {}
  /\ call = NoCall

\* ImageUpload.processFile: the upload zone exists only in the HeroSection
\* (!analysis && !isAnalyzing); the read runs on after the zone is gone
processFile(img) ==
  /\ analysis = NullAnalysis /\ ~isAnalyzing
  /\ files < MaxUploads
  /\ img = files + 1
  /\ files' = files + 1
  /\ reading' = reading \cup {img}
  /\ UNCHANGED << apiKey, selectedImage, analysis, isAnalyzing, showChat, error, wide,
                  sends, analysisReqs, chats, chatReqs, call >>

\* reader.onerror: an alert, and nothing else
ReaderError(img) ==
  /\ img \in reading
  /\ reading' = reading \ {img}
  /\ UNCHANGED << apiKey, selectedImage, analysis, isAnalyzing, showChat, error, wide,
                  files, sends, analysisReqs, chats, chatReqs, call >>

\* reader.onload -> handleImageSelect(base64), up to the await. Without a
\* credential ensureApiAvailable throws inside analyzeRoomImage, so the promise is
\* rejected at once and the catch and finally blocks run before any other event.
handleImageSelect(img) ==
  LET start == AnalyzeStart(apiKey)
      issued == start.kind = "request"
  IN
  /\ img \in reading
  /\ reading' = reading \ {img}
  /\ error' = IF issued THEN Null ELSE start.text
  /\ analysis' = NullAnalysis
  /\ selectedImage' = IF issued THEN img ELSE NoImage
  /\ isAnalyzing' = issued
  /\ analysisReqs' =
       IF issued
       THEN analysisReqs \cup {[image |-> img, abandoned |-> FALSE]}
       ELSE analysisReqs
  /\ CanRender(chats, analysis', selectedImage', showChat)
  /\ chats' = Render(chats, chatReqs, analysis', selectedImage', showChat)
  /\ UNCHANGED << apiKey, showChat, wide, files, sends, chatReqs, call >>

\* handleImageSelect after the await, analyzeRoomImage resolved: setAnalysis, finally
AnalysisResolved(r, data) ==
  /\ r \in analysisReqs
  /\ analysisReqs' = analysisReqs \ {r}
  /\ analysis' = [image |-> r.image, data |-> data]
  /\ isAnalyzing' = FALSE
  /\ CanRender(chats, analysis', selectedImage, showChat)
  /\ chats' = Render(chats, chatReqs, analysis', selectedImage, showChat)
  /\ UNCHANGED << apiKey, selectedImage, showChat, error, wide, files, sends, reading,
                  chatReqs, call >>

\* handleImageSelect after the await, analyzeRoomImage rejected: catch, finally
AnalysisRejected(r, msg) ==
  /\ r \in analysisReqs
  /\ analysisReqs' = analysisReqs \ {r}
  /\ error' = msg
  /\ selectedImage' = NoImage
  /\ isAnalyzing' = FALSE
  /\ chats' = Render(chats, chatReqs, analysis, selectedImage', showChat)
  /\ UNCHANGED << apiKey, analysis, showChat, wide, files, sends, reading, chatReqs,
                  call >>

\* resetApp (the logo is always there; the button when analysis is set). It does
\* not touch isAnalyzing nor the request; "abandoned" records that it ran meanwhile.
resetApp ==
  /\ selectedImage' = NoImage
  /\ analysis' = NullAnalysis
  /\ showChat' = FALSE
  /\ error' = Null
  /\ analysisReqs' = {[r EXCEPT !.abandoned = TRUE] : r \in analysisReqs}
  /\ chats' = Render(chats, chatReqs, analysis', selectedImage', showChat')
  /\ UNCHANGED << apiKey, isAnalyzing, wide, files, sends, reading, chatReqs, call >>

\* clearError, from the banner's close button
clearError ==
  /\ error # Null
  /\ error' = Null
  /\ UNCHANGED << apiKey, selectedImage, analysis, isAnalyzing, showChat, wide, files,
                  sends, reading, analysisReqs, chats, chatReqs, call >>

\* toggleChat, from the button of the mobile layout
toggleChat ==
  /\ Visible(analysis, selectedImage) /\ ~wide
  /\ showChat' = ~showChat
  /\ CanRender(chats, analysis, selectedImage, showChat')
  /\ chats' = Render(chats, chatReqs, analysis, selectedImage, showChat')
  /\ UNCHANGED << apiKey, selectedImage, analysis, isAnalyzing, error, wide, files,
                  sends, reading, analysisReqs, chatReqs, call >>

\* the user resizes the window across the xl breakpoint
Resize ==
  /\ wide' = ~wide
  /\ UNCHANGED << apiKey, selectedImage, analysis, isAnalyzing, showChat, error, files,
                  sends, reading, analysisReqs, chats, chatReqs, call >>

\* ------------------------------------------------------- ChatInterface
\* handleInputChange; the input element is disabled while isLoading
handleInputChange(c, v) ==
  /\ Reachable(chats[c]) /\ ~chats[c].isLoading
  /\ v # chats[c].input
  /\ chats' = [chats EXCEPT ![c].input = v]
  /\ UNCHANGED << apiKey, selectedImage, analysis, isAnalyzing, showChat, error, wide,
                  files, sends, reading, analysisReqs, chatReqs, call >>

\* canSend, and the guard at the top of handleSend
canSend(ch) == Truthy(Trim(ch.input)) /\ ~ch.isLoading

\* A slip of handleSend: the success branch forgetting the user turn.
HistoryPushModelOnly(history, trimmedInput, responseText) ==
  history \o << Turn("model", << TextPart(responseText) >>) >>

\* A slip of handleSend: the two turns pushed in the wrong order.
HistoryPushSwapped(history, trimmedInput, responseText) ==
  history \o << Turn("model", << TextPart(responseText) >>),
                Turn("user", << TextPart(trimmedInput) >>) >>

\* historyRef.current.push(user turn, model turn)
HistoryPush(history, trimmedInput, responseText) ==
  history \o << Turn("user", << TextPart(trimmedInput) >>),
                Turn("model", << TextPart(responseText) >>) >>

\* A slip of handleSend: a catch block that also records the failed exchange.
SettledPushesOnError(ch, trimmedInput, result) ==
  [ch EXCEPT
     !.messages = IF ch.mounted
                  THEN Append(@, Message("model",
                         IF result.kind = "return" THEN result.text ELSE APOLOGY_TEXT))
                  ELSE @,
     !.history = HistoryPush(@, trimmedInput,
                   IF result.kind = "return" THEN result.text ELSE APOLOGY_TEXT),
     !.exchanges = IF result.kind = "return" THEN @ + 1 ELSE @,
     !.isLoading = FALSE]

\* A slip of handleSend: isLoading reset at the end of the try block, not in finally.
SettledWithoutFinally(ch, trimmedInput, result) ==
  IF result.kind = "return"
  THEN [ch EXCEPT
          !.messages = IF ch.mounted THEN Append(@, Message("model", result.text)) ELSE @,
          !.history = HistoryPush(@, trimmedInput, result.text),
          !.exchanges = @ + 1,
          !.isLoading = FALSE]
  ELSE [ch EXCEPT
          !.messages = IF ch.mounted THEN Append(@, Message("model", APOLOGY_TEXT)) ELSE @]

\* handleSend after the await: the try block's rest when sendChatMessage returned,
\* the catch block when it threw, then finally. setMessages and setIsLoading do
\* nothing for an instance that was unmounted meanwhile; the push acts on the array
\* the closure holds. exchanges counts the passes through the success branch.
Settled(ch, trimmedInput, result) ==
  IF result.kind = "return"
  THEN [ch EXCEPT
          !.messages = IF ch.mounted THEN Append(@, Message("model", result.text)) ELSE @,
          !.history = HistoryPush(@, trimmedInput, result.text),
          !.exchanges = @ + 1,
          !.isLoading = FALSE]
  ELSE [ch EXCEPT
          !.messages = IF ch.mounted THEN Append(@, Message("model", APOLOGY_TEXT)) ELSE @,
          !.isLoading = FALSE]

\* handleSend up to the await (send button, or Enter through handleKeyDown): the
\* user message is rendered, the input cleared, isLoading set, and sendChatMessage is
\* called with the history and no image. Without a credential sendChatMessage returns
\* its fallback before any request, and the rest of handleSend runs at once.
handleSend(c) ==
  LET ch == chats[c]
      trimmedInput == Trim(ch.input)
      started == [ch EXCEPT
                    !.messages = Append(@, Message("user", trimmedInput)),
                    !.input = "",
                    !.isLoading = TRUE,
                    !.history = SendChatHistoryAfter(@, trimmedInput, NoImage)]
  IN /\ Reachable(ch) /\ canSend(ch)
     /\ sends < MaxSends
     /\ sends' = sends + 1
     /\ IF apiKey
        THEN /\ chatReqs' = chatReqs \cup
                  {[chat |-> c, image |-> ch.image, text |-> trimmedInput,
                    contents |-> SendChatContents(ch.history, trimmedInput, NoImage)]}
             /\ chats' = [chats EXCEPT ![c] = started]
        ELSE /\ chatReqs' = chatReqs
             /\ chats' = [chats EXCEPT ![c] =
                            Settled(started, trimmedInput,
                                    SendChatResult(apiKey, NoOutcome))]
     /\ UNCHANGED << apiKey, selectedImage, analysis, isAnalyzing, showChat, error, wide,
                     files, reading, analysisReqs, call >>

\* the rest of handleSend for request r, once its promise settled with result; an
\* instance that is no longer mounted is garbage afterwards
Settle(r, result) ==
  LET after == Settled(chats[r.chat], r.text, result) IN
  /\ chatReqs' = chatReqs \ {r}
  /\ chats' = [chats EXCEPT ![r.chat] = IF after.mounted THEN after ELSE NoChat]
  /\ UNCHANGED << apiKey, selectedImage, analysis, isAnalyzing, showChat, error, wide,
                  files, sends, reading, analysisReqs, call >>

\* generateContent settles with outcome, and sendChatMessage with it
ChatSettles(r, outcome) ==
  /\ r \in chatReqs
  /\ Settle(r, SendChatResult(apiKey, outcome))

\* a chat client other than sendChatMessage, one that lets an exception out
ChatClientThrows(r) ==
  /\ r \in chatReqs
  /\ Settle(r, Thrown)

Next ==
  \/ \E img \in Images : processFile(img)
  \/ \E img \in Images : ReaderError(img)
  \/ \E img \in Images : handleImageSelect(img)
  \/ \E r \in analysisReqs, data \in AppAnalysisData : AnalysisResolved(r, data)
  \/ \E r \in analysisReqs, msg \in AnalysisErrors : AnalysisRejected(r, msg)
  \/ resetApp
  \/ clearError
  \/ toggleChat
  \/ Resize
  \/ \E c \in ChatIds, v \in Inputs : handleInputChange(c, v)
  \/ \E c \in ChatIds : handleSend(c)
  \/ \E r \in chatReqs, outcome \in ModelOutcomes : ChatSettles(r, outcome)

Spec == Init /\ [][Next]_vars

\* ------------------------------------------------------ one chat session
\* The App right after the analysis of the first uploaded image resolved: the
\* results view is shown and the desktop ChatInterface is mounted.
InitSession ==
  /\ apiKey = TRUE
  /\ selectedImage = 1
  /\ analysis = [image |-> 1, data |-> CleanData(DOC_FULL)]
  /\ isAnalyzing = FALSE
  /\ showChat = FALSE
  /\ error = Null
  /\ wide \in BOOLEAN
  /\ files = 1
  /\ sends = 0
  /\ reading = {}
  /\ analysisReqs = {}
  /\ chats = Render([c \in ChatIds |-> NoChat], {}, analysis, selectedImage, showChat)
  /\ chatReqs = {}
  /\ call = NoCall

\* what can happen from then on while no other image is uploaded
NextSession ==
  \/ resetApp
  \/ toggleChat
  \/ Resize
  \/ \E c \in ChatIds, v \in Inputs : handleInputChange(c, v)
  \/ \E c \in ChatIds : handleSend(c)
  \/ \E r \in chatReqs, outcome \in ModelOutcomes : ChatSettles(r, outcome)

SpecSession == InitSession /\ [][NextSession]_vars

\* The same session with handleSend calling any chat client, one that lets an
\* exception out included.
NextSessionAnyClient ==
  \/ NextSession
  \/ \E r \in chatReqs : ChatClientThrows(r)

SpecSessionAnyClient == InitSession /\ [][NextSessionAnyClient]_vars

\* ------------------------------------------- sessions, one after the other
\* The App on a wide screen with a credential and analyses that succeed: images
\* are uploaded and analysed, the user chats, resets and uploads again, and
\* replies arrive whenever they arrive.
InitSessions ==
  /\ apiKey = TRUE
  /\ selectedImage = NoImage
  /\ analysis = NullAnalysis
  /\ isAnalyzing = FALSE
  /\ showChat = FALSE
  /\ error = Null
  /\ wide = TRUE
  /\ files = 0
  /\ sends = 0
  /\ reading = {}
  /\ analysisReqs = {}
  /\ chats = [c \in ChatIds |-> NoChat]
  /\ chatReqs = {}
  /\ call = NoCall

NextSessions ==
  \/ \E img \in Images : processFile(img)
  \/ \E img \in Images : handleImageSelect(img)
  \/ \E r \in analysisReqs : AnalysisResolved(r, CleanData(DOC_FULL))
  \/ resetApp
  \/ \E c \in ChatIds, v \in Inputs : handleInputChange(c, v)
  \/ \E c \in ChatIds : handleSend(c)
  \/ \E r \in chatReqs, outcome \in ModelOutcomes : ChatSettles(r, outcome)

SpecSessions == InitSessions /\ [][NextSessions]_vars

\* --------------------------------------------- sendChatMessage, called directly
\* turns a caller may hand over: text turns, the seed's image turn, a part
\* with neither text nor inlineData, and a part with both
SampleTurns ==
  { Turn("user", << TextPart("q1") >>),
    Turn("model", << TextPart("r1") >>),
    Turn("user", << InlinePart("image/jpeg", 1), TextPart(SEED_CAPTION) >>),
    Turn("model", << [text |-> Absent, mimeType |-> Absent, data |-> NoImage] >>),
    Turn("user", << [text |-> "q1", mimeType |-> "image/jpeg", data |-> 1] >>) }

RECURSIVE Histories(_)
Histories(n) ==
  IF n = 0 THEN {<< >>}
  ELSE LET shorter == Histories(n - 1)
       IN shorter \cup {Append(h, t) : h \in {g \in shorter : Len(g) = n - 1}, t \in SampleTurns}

InitSendChat ==
  /\ apiKey \in BOOLEAN
  /\ selectedImage = NoImage
  /\ analysis = NullAnalysis
  /\ isAnalyzing = FALSE
  /\ showChat = FALSE
  /\ error = Null
  /\ wide = TRUE
  /\ files = 0
  /\ sends = 0
  /\ reading = {}
  /\ analysisReqs = {}
  /\ chats = [c \in ChatIds |-> NoChat]
  /\ chatReqs = {}
  /\ \E h \in Histories(MaxHistory), m \in {"", "q1"}, img \in {NoImage, 1} :
       call = [NoCall EXCEPT !.op = "sendChatMessage", !.pc = "called", !.key = apiKey,
                             !.history = h, !.newMessage = m, !.base64Image = img]

\* sendChatMessage up to the await: the early return without a credential, else
\* the request is built and submitted
SendChatCalled ==
  /\ call.op = "sendChatMessage" /\ call.pc = "called"
  /\ call' =
       IF ~call.key
       THEN [call EXCEPT !.pc = "settled",
                         !.result = SendChatResult(call.key, NoOutcome)]
       ELSE [call EXCEPT !.pc = "awaiting",
                         !.history = SendChatHistoryAfter(@, call.newMessage, call.base64Image),
                         !.contents = SendChatContents(call.history, call.newMessage,
                                                       call.base64Image)]
  /\ UNCHANGED << apiKey, selectedImage, analysis, isAnalyzing, showChat, error, wide,
                  files, sends, reading, analysisReqs, chats, chatReqs >>

\* generateContent settles with outcome: the return statement or the catch block
SendChatAwaited(outcome) ==
  /\ call.op = "sendChatMessage" /\ call.pc = "awaiting"
  /\ call' = [call EXCEPT !.pc = "settled", !.outcome = outcome,
                          !.result = SendChatResult(call.key, outcome)]
  /\ UNCHANGED << apiKey, selectedImage, analysis, isAnalyzing, showChat, error, wide,
                  files, sends, reading, analysisReqs, chats, chatReqs >>

NextSendChat ==
  \/ SendChatCalled
  \/ \E outcome \in ModelOutcomes : SendChatAwaited(outcome)

SpecSendChat == InitSendChat /\ [][NextSendChat]_vars

\* --------------------------------------------- analyzeRoomImage, called directly
InitAnalyze ==
  /\ apiKey \in BOOLEAN
  /\ selectedImage = NoImage
  /\ analysis = NullAnalysis
  /\ isAnalyzing = FALSE
  /\ showChat = FALSE
  /\ error = Null
  /\ wide = TRUE
  /\ files = 0
  /\ sends = 0
  /\ reading = {}
  /\ analysisReqs = {}
  /\ chats = [c \in ChatIds |-> NoChat]
  /\ chatReqs = {}
  /\ call = [NoCall EXCEPT !.op = "analyzeRoomImage", !.pc = "called", !.key = apiKey,
                           !.base64Image = 1]

\* analyzeRoomImage up to the await
AnalyzeCalled ==
  /\ call.op = "analyzeRoomImage" /\ call.pc = "called"
  /\ LET start == AnalyzeStart(call.key) IN
     call' = IF start.kind = "request"
             THEN [call EXCEPT !.pc = "awaiting"]
             ELSE [call EXCEPT !.pc = "settled",
                               !.result = [kind |-> start.kind, text |-> start.text]]
  /\ UNCHANGED << apiKey, selectedImage, analysis, isAnalyzing, showChat, error, wide,
                  files, sends, reading, analysisReqs, chats, chatReqs >>

\* generateContent settles with outcome, and the call ends as the try block or the
\* catch block ends it
AnalyzeAwaited(outcome) ==
  /\ call.op = "analyzeRoomImage" /\ call.pc = "awaiting"
  /\ \E res \in AnalyzeResults(outcome) :
       call' = [call EXCEPT !.pc = "settled", !.response = outcome,
                            !.result = [kind |-> res.kind, text |-> res.text],
                            !.raw = res.raw, !.data = res.data]
  /\ UNCHANGED << apiKey, selectedImage, analysis, isAnalyzing, showChat, error, wide,
                  files, sends, reading, analysisReqs, chats, chatReqs >>

NextAnalyze ==
  \/ AnalyzeCalled
  \/ \E outcome \in AnalysisOutcomes : AnalyzeAwaited(outcome)

SpecAnalyze == InitAnalyze /\ [][NextAnalyze]_vars

\* either function of the service, called directly
InitService == InitSendChat \/ InitAnalyze

NextService == NextSendChat \/ NextAnalyze

SpecService == InitService /\ [][NextService]_vars

\* ---------------------------------------------------- cleanText, called directly
\* what the texts handed to cleanText are made of: parentheses, a Latin and a
\* Cyrillic letter, a blank, a bold marker, a leaked thought, a label, a line break
Fragments ==
  { << "(" >>, << ")" >>, << "a" >>, << "U+044F" >>, << " " >>, << "*", "*" >>,
    << "W", "a", "i", "t", "," >>, << "N", "o", "t", "e", ":" >>, << "\n" >> }

RECURSIVE Texts(_)
Texts(n) ==
  IF n = 0 THEN {<< >>}
  ELSE LET shorter == Texts(n - 1)
       IN shorter \cup {t \o f : t \in shorter, f \in Fragments}

\* "Kukhnya (Kitchen) **vazhno**", the Cyrillic words written by code points
EXAMPLE_KITCHEN ==
  << "U+041A", "U+0443", "U+0445", "U+043D", "U+044F", " ",
     "(", "K", "i", "t", "c", "h", "e", "n", ")", " ",
     "*", "*", "U+0432", "U+0430", "U+0436", "U+043D", "U+043E", "*", "*" >>

CleanTextInputs ==
  {Undefined} \cup {Str(t) : t \in Texts(MaxFragments) \cup {EXAMPLE_KITCHEN}}

InitCleanText ==
  /\ apiKey = TRUE
  /\ selectedImage = NoImage
  /\ analysis = NullAnalysis
  /\ isAnalyzing = FALSE
  /\ showChat = FALSE
  /\ error = Null
  /\ wide = TRUE
  /\ files = 0
  /\ sends = 0
  /\ reading = {}
  /\ analysisReqs = {}
  /\ chats = [c \in ChatIds |-> NoChat]
  /\ chatReqs = {}
  /\ \E x \in CleanTextInputs :
       call = [NoCall EXCEPT !.op = "cleanText", !.pc = "called", !.text = x]

\* cleanText runs to its return statement
CleanTextCalled ==
  /\ call.op = "cleanText" /\ call.pc = "called"
  /\ call' = [call EXCEPT !.pc = "settled", !.cleaned = cleanText(call.text)]
  /\ UNCHANGED << apiKey, selectedImage, analysis, isAnalyzing, showChat, error, wide,
                  files, sends, reading, analysisReqs, chats, chatReqs >>

SpecCleanText == InitCleanText /\ [][CleanTextCalled]_vars

\* ------------------------------------------------------- AnalysisDashboard
ORGANIZE == Str(<< "O", "r", "g", "a", "n", "i", "z", "e" >>)
\* a category outside the three of the type
OTHER_CATEGORY == Str(<< "O", "t", "h", "e", "r" >>)

TEXT_RED == "text-red-500"
TEXT_ORANGE == "text-orange-500"
TEXT_EMERALD == "text-emerald-500"

\* A slip of the card: the upper threshold taken inclusively.
clutterColorInclusive(clutterLevel) ==
  IF clutterLevel.v >= 70 THEN TEXT_RED
  ELSE IF clutterLevel.v > 40 THEN TEXT_ORANGE
  ELSE TEXT_EMERALD

\* SummaryCard: the colour of the indicator for a numeric clutterLevel
clutterColor(clutterLevel) ==
  IF clutterLevel.v > 70 THEN TEXT_RED
  ELSE IF clutterLevel.v > 40 THEN TEXT_ORANGE
  ELSE TEXT_EMERALD

\* analysis.actionItems.filter((item) => item.category === category)
FilterCategory(actionItems, category) ==
  SelectSeq(actionItems, LAMBDA item : item.category = category)

groupedItems(actionItems) ==
  [discard |-> FilterCategory(actionItems, DISCARD),
   organize |-> FilterCategory(actionItems, ORGANIZE),
   buy |-> FilterCategory(actionItems, BUY)]

\* A slip of the dashboard: the message shown as soon as one panel is empty.
hasNoItemsAnyEmpty(grouped) ==
  Len(grouped.discard) = 0 \/ Len(grouped.organize) = 0 \/ Len(grouped.buy) = 0

hasNoItems(grouped) ==
  Len(grouped.discard) = 0 /\ Len(grouped.organize) = 0 /\ Len(grouped.buy) = 0

\* ActionGroup returns null for an empty list: the panels that are rendered
RenderedGroups(grouped) ==
  {c \in {"Discard", "Organize", "Buy"} :
     Len(CASE c = "Discard" -> grouped.discard
           [] c = "Organize" -> grouped.organize
           [] c = "Buy" -> grouped.buy) # 0}

\* what AnalysisDashboard renders of an analysis: the colour of the indicator, the
\* three lists, the panels and the message
DashboardView(data) ==
  LET grouped == groupedItems(data.actionItems.v)
  IN [tier |-> clutterColor(data.clutterLevel),
      discard |-> grouped.discard, organize |-> grouped.organize, buy |-> grouped.buy,
      panels |-> RenderedGroups(grouped),
      message |-> hasNoItems(grouped)]

\* the clutter levels handed to the dashboard: the thresholds, their neighbours,
\* the ends of the scale and the values outside it that the client lets through
ClutterLevels == {-5, 0, 39, 40, 41, 69, 70, 71, 85, 100, 150}

Categories == {DISCARD, ORGANIZE, BUY, OTHER_CATEGORY, Undefined}

ItemIds == << "1", "2", "3", "4", "5", "6", "7", "8", "9" >>

\* lists of action items, the id of an item being its place in the list
RECURSIVE ItemLists(_)
ItemLists(n) ==
  IF n = 0 THEN {<< >>}
  ELSE LET shorter == ItemLists(n - 1)
       IN shorter \cup
            {Append(l, ActionItem(Str(<< ItemIds[n] >>), TEXT_PLAIN, TEXT_PLAIN, EASY, c)) :
               l \in {m \in shorter : Len(m) = n - 1}, c \in Categories}

DashboardInputs ==
  {RoomAnalysis(TEXT_PLAIN, Num(level), TEXT_PLAIN, Arr(<< >>), Arr(items), Arr(<< >>)) :
     level \in ClutterLevels, items \in ItemLists(MaxItems)}

InitDashboard ==
  /\ apiKey = TRUE
  /\ selectedImage = NoImage
  /\ analysis = NullAnalysis
  /\ isAnalyzing = FALSE
  /\ showChat = FALSE
  /\ error = Null
  /\ wide = TRUE
  /\ files = 0
  /\ sends = 0
  /\ reading = {}
  /\ analysisReqs = {}
  /\ chats = [c \in ChatIds |-> NoChat]
  /\ chatReqs = {}
  /\ \E data \in DashboardInputs :
       call = [NoCall EXCEPT !.op = "AnalysisDashboard", !.pc = "called", !.data = data]

\* AnalysisDashboard renders the analysis it was given
DashboardRendered ==
  /\ call.op = "AnalysisDashboard" /\ call.pc = "called"
  /\ call' = [call EXCEPT !.pc = "settled", !.view = DashboardView(call.data)]
  /\ UNCHANGED << apiKey, selectedImage, analysis, isAnalyzing, showChat, error, wide,
                  files, sends, reading, analysisReqs, chats, chatReqs >>

SpecDashboard == InitDashboard /\ [][DashboardRendered]_vars

\* -------------------------------------------------- extractJSON, called directly
\* what the texts handed to extractJSON are made of
ExtractFragments ==
  { << "{" >>, << "}" >>, << "a" >>, << "U+0060" >>, << "\n" >>, FENCE, FENCE_JSON }

RECURSIVE ExtractTexts(_)
ExtractTexts(n) ==
  IF n = 0 THEN {<< >>}
  ELSE LET shorter == ExtractTexts(n - 1)
       IN shorter \cup {t \o f : t \in shorter, f \in ExtractFragments}

\* what the string value of a JSON object text is made of
ValueFragments ==
  { << "a" >>, << " " >>, << "{" >>, << "}" >>, << "U+0060" >>, FENCE }

RECURSIVE ValueTexts(_)
ValueTexts(n) ==
  IF n = 0 THEN {<< >>}
  ELSE LET shorter == ValueTexts(n - 1)
       IN shorter \cup {t \o f : t \in shorter, f \in ValueFragments}

\* {"a":"<value>"}
ObjectWithValue(value) ==
  << "{", "\"", "a", "\"", ":", "\"" >> \o value \o << "\"", "}" >>

\* {"a":1}
EXAMPLE_OBJECT == << "{", "\"", "a", "\"", ":", "1", "}" >>

\* {"a":{"a":1}}
NESTED_OBJECT == << "{", "\"", "a", "\"", ":" >> \o EXAMPLE_OBJECT \o << "}" >>

JsonObjects ==
  {ObjectWithValue(v) : v \in ValueTexts(MaxFragments - 2)}
    \cup {EXAMPLE_OBJECT, NESTED_OBJECT}

\* prose without braces that a model puts in front of its answer
Proses ==
  { << "O", "K", ":", " " >>, << "a", "\n" >>, FENCE, << "U+0060", "U+0060" >>,
    FENCE_JSON \o << " " >> }

Fenced(J) == FENCE_JSON \o << "\n" >> \o J \o << "\n" >> \o FENCE

AfterProse(J) == {prose \o J : prose \in Proses}

NO_JSON_HERE == << "n", "o", " ", "j", "s", "o", "n", " ", "h", "e", "r", "e" >>

ExtractInputs ==
  ExtractTexts(MaxFragments) \cup {NO_JSON_HERE}
    \cup JsonObjects \cup {Fenced(J) : J \in JsonObjects}
    \cup UNION {AfterProse(J) : J \in JsonObjects}

InitExtractJSON ==
  /\ apiKey = TRUE
  /\ selectedImage = NoImage
  /\ analysis = NullAnalysis
  /\ isAnalyzing = FALSE
  /\ showChat = FALSE
  /\ error = Null
  /\ wide = TRUE
  /\ files = 0
  /\ sends = 0
  /\ reading = {}
  /\ analysisReqs = {}
  /\ chats = [c \in ChatIds |-> NoChat]
  /\ chatReqs = {}
  /\ \E x \in ExtractInputs :
       call = [NoCall EXCEPT !.op = "extractJSON", !.pc = "called", !.text = Str(x)]

\* extractJSON runs to its return statement
ExtractJSONCalled ==
  /\ call.op = "extractJSON" /\ call.pc = "called"
  /\ call' = [call EXCEPT !.pc = "settled", !.extracted = extractJSON(call.text.v)]
  /\ UNCHANGED << apiKey, selectedImage, analysis, isAnalyzing, showChat, error, wide,
                  files, sends, reading, analysisReqs, chats, chatReqs >>

SpecExtractJSON == InitExtractJSON /\ [][ExtractJSONCalled]_vars

\* ------------------------------------------------------------ properties
IsPrefix(s, t) == Len(s) <= Len(t) /\ SubSeq(t, 1, Len(s)) = s

Last(s) == s[Len(s)]

C2_FailedExchangeKeepsHistory ==
  [][\A r \in chatReqs :
       ( /\ r \notin chatReqs'
         /\ chats[r.chat].mounted /\ chats'[r.chat].mounted
         /\ Last(chats'[r.chat].messages).text \in Fallbacks \cup {APOLOGY_TEXT} )
       => /\ Len(chats'[r.chat].history) = Len(chats[r.chat].history)
          /\ Len(chats'[r.chat].messages) = Len(chats[r.chat].messages) + 1
          /\ Last(chats'[r.chat].messages).role = "model"]_vars

\* C3: when the chat client called by handleSend throws, handleSend of a mounted
\* ChatInterface adds exactly one model-authored entry with the fixed apology text
\* to the transcript, leaves the history as it was, and resets isLoading.
C3_ThrowAddsOneApology ==
  [][\A r \in chatReqs :
       (ChatClientThrows(r) /\ chats[r.chat].mounted)
       => /\ chats'[r.chat].messages =
               Append(chats[r.chat].messages, Message("model", APOLOGY_TEXT))
          /\ chats'[r.chat].history = chats[r.chat].history
          /\ chats'[r.chat].exchanges = chats[r.chat].exchanges
          /\ ~chats'[r.chat].isLoading]_vars

\* the first exchange of a chat ended in the catch block
C3_Witness ==
  \E c \in ChatIds :
    /\ chats[c].mounted /\ ~chats[c].isLoading
    /\ chats[c].messages =
         << WELCOME_MESSAGE, Message("user", "q1"), Message("model", APOLOGY_TEXT) >>
    /\ chats[c].history = createInitialHistory(chats[c].image)

\* the model supplied reply text for this call
Supplied(key, outcome) == key /\ outcome.kind = "response" /\ Truthy(outcome.text)

\* C4: a settled call of sendChatMessage has returned, never thrown, whatever
\* the history, the message, the image, the credential and the outcome of the
\* model call; the string returned is not empty, and it is one of the fixed
\* fallback strings whenever the model supplied no reply text.
C4_SendChatNeverThrows ==
  call.pc = "settled" =>
    /\ call.result.kind = "return"
    /\ Truthy(call.result.text)
    /\ (~Supplied(call.key, call.outcome) => call.result.text \in Fallbacks)

\* generateContent threw and the call returned the fallback of the catch block
C4_Witness ==
  /\ call.pc = "settled" /\ call.key /\ call.outcome.kind = "throw"
  /\ Len(call.history) = MaxHistory /\ HasImage(call.base64Image)
  /\ call.result = Returned(FALLBACK_ERROR)

\* C5: the history array of a ChatInterface changes only by the push of
\* handleSend's success branch: the call of sendChatMessage leaves it as it was,
\* and so does an exchange that fails.
C5_OnlySuccessAppends ==
  [][\A c \in ChatIds :
       (chats[c].alive /\ chats'[c].alive) =>
         \/ chats'[c].history = chats[c].history
         \/ \E r \in chatReqs \ chatReqs' :
              /\ r.chat = c
              /\ chats'[c].exchanges = chats[c].exchanges + 1
              /\ \E t \in Replies \cup Fallbacks :
                   chats'[c].history = HistoryPush(chats[c].history, r.text, t)]_vars

\* a request is outstanding and the history it was built from is still the seed
C5_Witness ==
  \E r \in chatReqs :
    /\ chats[r.chat].mounted /\ chats[r.chat].isLoading
    /\ chats[r.chat].history = createInitialHistory(chats[r.chat].image)
    /\ Len(r.contents) = Len(chats[r.chat].history) + 1

\* C6 (as claimed): at most one sendChatMessage call is outstanding per session
\* (per uploaded image).
C6_OneChatRequestPerSession ==
  \A r1, r2 \in chatReqs : r1.image = r2.image => r1 = r2

\* C7 (as claimed): at most one analyzeRoomImage call is outstanding.
C7_OneAnalysisInFlight ==
  Cardinality(analysisReqs) <= 1

\* C8 (as claimed): when an analysis request that was outstanding during a
\* resetApp settles in the reset state, the App stays in the reset state: no
\* image selected and no analysis stored.
C8_AbandonedAnalysisLeavesReset ==
  [][\A r \in analysisReqs :
       ( /\ r.abandoned /\ r \notin analysisReqs'
         /\ selectedImage = NoImage /\ analysis = NullAnalysis )
       => (selectedImage' = NoImage /\ analysis' = NullAnalysis)]_vars

\* C9 (as claimed): as long as the session goes on (the selected image stays),
\* every mounted ChatInterface keeps its history, which only grows at its end;
\* toggleChat in particular discards none.
C9_HistoryAppendOnlyInSession ==
  [][\A c \in ChatIds :
       (chats[c].mounted /\ selectedImage' = selectedImage)
       => /\ chats'[c].mounted
          /\ chats'[c].image = chats[c].image
          /\ IsPrefix(chats[c].history, chats'[c].history)]_vars

\* an exchange has used, or is using, the history of this instance
Used(c) == chats[c].alive /\ (chats[c].exchanges > 0 \/ Outstanding(chatReqs, c))

\* C10 (as claimed): a history belongs to one session, seeded with that session's
\* image and never mounted under another selected image, and all the exchanges of
\* one session use one and the same history.
C10_OneHistoryPerSession ==
  /\ \A c \in ChatIds :
       chats[c].alive =>
         /\ chats[c].history[1].parts[1].data = chats[c].image
         /\ chats[c].mounted => chats[c].image = selectedImage
  /\ \A c1, c2 \in ChatIds :
       (Used(c1) /\ Used(c2) /\ chats[c1].image = chats[c2].image) => c1 = c2

\* s is a subsequence of t: the elements of s occur in t in the same order
RECURSIVE IsSubseq(_, _)
IsSubseq(s, t) ==
  IF s = << >> THEN TRUE
  ELSE IF t = << >> THEN FALSE
  ELSE IF Head(s) = Head(t) THEN IsSubseq(Tail(s), Tail(t))
  ELSE IsSubseq(s, Tail(t))

\* a history turn of an exchange, as the transcript entry that shows it
TurnAsEntry(turn) == Message(turn.role, turn.parts[1].text)

\* the turns of the history after the two seed turns, as transcript entries
ExchangeTurns(history) ==
  [i \in 1..(Len(history) - 2) |-> TurnAsEntry(history[i + 2])]

\* C11: in a mounted ChatInterface the transcript starts with the welcome entry,
\* the entries after it alternate user, model, ... (each user entry stands before
\* the model entry that answers it), and the history turns after the two seed
\* turns are, in the same order and with the same roles and texts, a subsequence
\* of those entries.
C11_TranscriptAndHistoryAgree ==
  \A c \in ChatIds :
    chats[c].mounted =>
      LET entries == Tail(chats[c].messages) IN
      /\ chats[c].messages[1] = WELCOME_MESSAGE
      /\ \A i \in 1..Len(entries) :
           entries[i].role = (IF i % 2 = 1 THEN "user" ELSE "model")
      /\ IsSubseq(ExchangeTurns(chats[c].history), entries)

\* a failed exchange (in the transcript only) came before a successful one
C11_Witness ==
  \E c \in ChatIds :
    /\ chats[c].mounted
    /\ chats[c].messages =
         << WELCOME_MESSAGE, Message("user", "q1"), Message("model", APOLOGY_TEXT),
            Message("user", "q1"), Message("model", "r1") >>
    /\ Len(chats[c].history) = 4

\* C17 (as claimed): cleanText is idempotent, cleanText(cleanText(x)) = cleanText(x)
\* for every text x.
C17_CleanTextIdempotent ==
  (call.op = "cleanText" /\ call.pc = "settled") =>
    cleanText(Str(call.cleaned)) = call.cleaned

\* C18 (as claimed): cleanText of the kitchen example returns the first word alone.
C18_KitchenExampleFirstWord ==
  (call.op = "cleanText" /\ call.pc = "settled" /\ call.text = Str(EXAMPLE_KITCHEN)) =>
    call.cleaned = SubSeq(EXAMPLE_KITCHEN, 1, 5)

\* C18 (amended): cleanText of the kitchen example removes the parenthesis and the
\* four asterisks and nothing else: the first word, the two blanks that stood around
\* the parenthesis, and the second word.
C18_KitchenExample ==
  (call.op = "cleanText" /\ call.pc = "settled" /\ call.text = Str(EXAMPLE_KITCHEN)) =>
    call.cleaned =
      << "U+041A", "U+0443", "U+0445", "U+043D", "U+044F", " ", " ",
         "U+0432", "U+0430", "U+0436", "U+043D", "U+043E" >>

\* cleanText has returned for the kitchen example
C18_Witness ==
  /\ call.op = "cleanText" /\ call.pc = "settled" /\ call.text = Str(EXAMPLE_KITCHEN)
  /\ call.cleaned # << >>

\* the model answered, so whatever failed afterwards failed in the try block on
\* the text of the answer: no text, no JSON in it, or no list where one is mapped
ParseFailed ==
  /\ call.op = "analyzeRoomImage" /\ call.pc = "settled"
  /\ call.response.kind = "response" /\ call.result.kind = "throw"

\* C12 (as claimed): when analyzeRoomImage fails on the text of the response (it is
\* empty, it is not JSON, or a list is missing), the error raised is the generic
\* one, whatever the text contains.
C12_ParseFailureIsGeneric ==
  ParseFailed => call.result.text = ERR_GENERIC

\* C13: without a credential the module loads (calls can be made), a call of
\* analyzeRoomImage ends with the configuration error and a call of sendChatMessage
\* with its fallback, and neither issues a request to the model: no call is ever
\* awaiting generateContent, none has built contents, none has an outcome.
C13_NoKeyNoRequest ==
  ~call.key =>
    /\ call.pc # "awaiting"
    /\ call.contents = << >>
    /\ call.outcome = NoOutcome /\ call.response = NoOutcome
    /\ (call.pc = "settled" /\ call.op = "analyzeRoomImage") =>
         call.result = [kind |-> "throw", text |-> ERR_CONFIG]
    /\ (call.pc = "settled" /\ call.op = "sendChatMessage") =>
         call.result = Returned(FALLBACK_NO_KEY)

\* analyzeRoomImage has failed for want of a credential
C13_Witness ==
  /\ ~apiKey /\ call.op = "analyzeRoomImage" /\ call.pc = "settled"
  /\ call.result.kind = "throw"

Populated(v) == v.t # "undefined"

\* every field of the RoomAnalysis shape is there, in the object and in each entry
\* of its lists
FullyPopulated(d) ==
  /\ Populated(d.roomType) /\ Populated(d.clutterLevel) /\ Populated(d.summary)
  /\ d.spaceUtilization.t = "array" /\ d.actionItems.t = "array"
  /\ d.aestheticSuggestions.t = "array"
  /\ \A i \in 1..Len(d.spaceUtilization.v) :
       Populated(d.spaceUtilization.v[i].name) /\ Populated(d.spaceUtilization.v[i].value)
  /\ \A i \in 1..Len(d.actionItems.v) :
       LET item == d.actionItems.v[i] IN
       /\ Populated(item.id) /\ Populated(item.title) /\ Populated(item.description)
       /\ Populated(item.difficulty) /\ Populated(item.category)
  /\ \A i \in 1..Len(d.aestheticSuggestions.v) : Populated(d.aestheticSuggestions.v[i])

AnalyzeReturned ==
  call.op = "analyzeRoomImage" /\ call.pc = "settled" /\ call.result.kind = "return"

\* C14 (as claimed): analyzeRoomImage returns only when the parsed response has
\* every field of the RoomAnalysis shape, and what it returns has every field.
C14_NoPartialResult ==
  AnalyzeReturned => (FullyPopulated(call.raw) /\ FullyPopulated(call.data))

\* C15 (as claimed): the RoomAnalysis the App shows has a clutterLevel that is a
\* number from 0 to 100.
C15_ClutterLevelInRange ==
  Visible(analysis, selectedImage) =>
    /\ analysis.data.clutterLevel.t = "number"
    /\ analysis.data.clutterLevel.v \in 0..100

\* C16 (as claimed): when an analysis fails and no other is in flight, the App is
\* in the upload state with a banner (no image selected, no analysis stored, not
\* analyzing, error set), and a banner goes away only by clearError, by resetApp
\* or by the start of a new analysis.
C16_FailureGivesUploadState ==
  [][ /\ ( /\ \/ \E r \in analysisReqs, msg \in AnalysisErrors : AnalysisRejected(r, msg)
              \/ (~apiKey /\ \E img \in Images : handleImageSelect(img))
           /\ analysisReqs' = {} )
         => /\ selectedImage' = NoImage /\ analysis' = NullAnalysis
            /\ ~isAnalyzing' /\ error' # Null
      /\ (error # Null /\ error' = Null)
         => (clearError \/ resetApp \/ \E img \in Images : handleImageSelect(img)) ]_vars

\* the free-text fields of a RoomAnalysis
FreeTexts(d) ==
  {d.roomType.v, d.summary.v}
    \cup {d.actionItems.v[i].title.v : i \in 1..Len(d.actionItems.v)}
    \cup {d.actionItems.v[i].description.v : i \in 1..Len(d.actionItems.v)}
    \cup {d.aestheticSuggestions.v[i].v : i \in 1..Len(d.aestheticSuggestions.v)}
    \cup {d.spaceUtilization.v[i].name.v : i \in 1..Len(d.spaceUtilization.v)}

\* C19 (as claimed): no free-text field of a RoomAnalysis returned by
\* analyzeRoomImage holds "**" or, in any case, "Wait,".
C19_NoBoldNoWait ==
  AnalyzeReturned =>
    \A f \in FreeTexts(call.data) :
      ~Contains(f, << "*", "*" >>) /\ ~Contains(LowerCase(f), WAIT)

\* C20: the RoomAnalysis returned is the parsed one with cleanText applied to
\* roomType, summary, each item's title and description, each suggestion and each
\* utilization name; clutterLevel, each utilization value and each item's id,
\* difficulty and category are as parsed, and the lists keep length and order.
C20_SanitizerFrame ==
  AnalyzeReturned =>
    LET raw == call.raw
        data == call.data
    IN /\ data.clutterLevel = raw.clutterLevel
       /\ data.roomType = Str(cleanText(raw.roomType))
       /\ data.summary = Str(cleanText(raw.summary))
       /\ Len(data.spaceUtilization.v) = Len(raw.spaceUtilization.v)
       /\ \A i \in 1..Len(raw.spaceUtilization.v) :
            /\ data.spaceUtilization.v[i].value = raw.spaceUtilization.v[i].value
            /\ data.spaceUtilization.v[i].name =
                 Str(cleanText(raw.spaceUtilization.v[i].name))
       /\ Len(data.actionItems.v) = Len(raw.actionItems.v)
       /\ \A i \in 1..Len(raw.actionItems.v) :
            /\ data.actionItems.v[i].id = raw.actionItems.v[i].id
            /\ data.actionItems.v[i].difficulty = raw.actionItems.v[i].difficulty
            /\ data.actionItems.v[i].category = raw.actionItems.v[i].category
            /\ data.actionItems.v[i].title = Str(cleanText(raw.actionItems.v[i].title))
            /\ data.actionItems.v[i].description =
                 Str(cleanText(raw.actionItems.v[i].description))
       /\ Len(data.aestheticSuggestions.v) = Len(raw.aestheticSuggestions.v)
       /\ \A i \in 1..Len(raw.aestheticSuggestions.v) :
            data.aestheticSuggestions.v[i] = Str(cleanText(raw.aestheticSuggestions.v[i]))

\* a fenced response was parsed and its texts were changed by the sanitizer
C20_Witness ==
  /\ AnalyzeReturned
  /\ call.raw = DOC_FULL /\ call.data # call.raw
  /\ Len(call.data.actionItems.v) = 2
  /\ Contains(call.response.text.v, FENCE_JSON)

ExtractSettled == call.op = "extractJSON" /\ call.pc = "settled"

\* the three shapes in which a model hands over the object J
Forms(J) == {J, Fenced(J)} \cup AfterProse(J)

StripFences(t) == RemoveFence(RemoveFence(t, FENCE_JSON), FENCE)

\* C21, as stated: for every JSON object text J, extractJSON of J in a json fence,
\* of J after brace-free prose and of J alone all return J
C21_EveryFormReturnsObject ==
  ExtractSettled =>
    \A J \in JsonObjects : call.text.v \in Forms(J) => call.extracted = J

\* C21: for every JSON object text J, extractJSON of J in a json fence, of J after
\* brace-free prose and of J alone return the same text, J with its fence tokens
\* removed; that text is J whenever J holds no run of three backticks
C21_FormsAgree ==
  ExtractSettled =>
    \A J \in JsonObjects :
      call.text.v \in Forms(J) =>
        /\ call.extracted = StripFences(J)
        /\ ~Contains(J, FENCE) => call.extracted = J

\* the fenced example of the specification gave the bare object
C21_Witness ==
  /\ ExtractSettled
  /\ call.text.v = Fenced(EXAMPLE_OBJECT)
  /\ call.extracted = EXAMPLE_OBJECT

SendChatSubmitted ==
  call.op = "sendChatMessage" /\ call.key /\ call.pc \in {"awaiting", "settled"}

CarriesText(part) == part.text # Absent
CarriesInline(part) == part.data # NoImage

\* the new user turn of the request: the image part only when an image is passed,
\* then the text part with the new message
NewTurnAsClaimed ==
  Last(call.contents) =
    Turn("user",
         IF HasImage(call.base64Image)
         THEN << InlinePart("image/jpeg", call.base64Image), TextPart(call.newMessage) >>
         ELSE << TextPart(call.newMessage) >>)

DashboardSettled == call.op = "AnalysisDashboard" /\ call.pc = "settled"

\* C24: the indicator is red exactly when clutterLevel > 70, orange exactly when
\* 40 < clutterLevel <= 70 and green exactly when clutterLevel <= 40; 85 is red
C24_ClutterTier ==
  DashboardSettled =>
    LET level == call.data.clutterLevel.v
        tier == call.view.tier
    IN /\ tier \in {TEXT_RED, TEXT_ORANGE, TEXT_EMERALD}
       /\ tier = TEXT_RED <=> level > 70
       /\ tier = TEXT_ORANGE <=> (40 < level /\ level <= 70)
       /\ tier = TEXT_EMERALD <=> level <= 40
       /\ level = 85 => tier = TEXT_RED

\* the analysis with clutterLevel 85 was rendered in red
C24_Witness ==
  /\ DashboardSettled
  /\ call.data.clutterLevel = Num(85)
  /\ call.view.tier = TEXT_RED

\* the places in the list of the items of a category
PlacesOf(items, category) == {i \in 1..Len(items) : items[i].category = category}

\* the panel holds the items of the category, all of them, in the order of the list
PanelHolds(panel, items, category) ==
  /\ IsSubseq(panel, items)
  /\ \A k \in 1..Len(panel) : panel[k].category = category
  /\ Len(panel) = Cardinality(PlacesOf(items, category))

\* C25: every action item whose category is Discard, Organize or Buy is in the
\* panel of its category and in no other, in the order of the list; a panel is
\* rendered exactly when it has an item; the message that nothing is to be done
\* is rendered exactly when the three panels are empty
C25_GroupedByCategory ==
  DashboardSettled =>
    LET items == call.data.actionItems.v
        view == call.view
    IN /\ PanelHolds(view.discard, items, DISCARD)
       /\ PanelHolds(view.organize, items, ORGANIZE)
       /\ PanelHolds(view.buy, items, BUY)
       /\ "Discard" \in view.panels <=> Len(view.discard) >= 1
       /\ "Organize" \in view.panels <=> Len(view.organize) >= 1
       /\ "Buy" \in view.panels <=> Len(view.buy) >= 1
       /\ view.message <=>
            (Len(view.discard) = 0 /\ Len(view.organize) = 0 /\ Len(view.buy) = 0)

\* one item to buy between two to discard: two panels, no Organize panel, no message
C25_Witness ==
  /\ DashboardSettled
  /\ Len(call.data.actionItems.v) = 3
  /\ call.data.actionItems.v[2].category = BUY
  /\ Len(call.view.discard) = 2 /\ Len(call.view.buy) = 1
  /\ call.view.panels = {"Discard", "Buy"}
  /\ ~call.view.message

CarriesImage(turn) == \E j \in 1..Len(turn.parts) : turn.parts[j].data # NoImage

\* C26: in a chat session the first turn of the history is a user turn with the
\* image of the session and then the fixed caption, the second turn is the fixed
\* acknowledgment of the model, and no later turn of the history and no new user
\* turn of a follow-up request carries an image
C26_OnlySeedCarriesImage ==
  /\ \A c \in ChatIds :
       LET ch == chats[c] IN
       ch.alive =>
         /\ Len(ch.history) >= 2
         /\ ch.history[1] =
              Turn("user", << InlinePart("image/jpeg", ch.image), TextPart(SEED_CAPTION) >>)
         /\ ch.history[2] = Turn("model", << TextPart(SEED_ACK) >>)
         /\ ch.mounted => ch.image = selectedImage
         /\ \A i \in 3..Len(ch.history) : ~CarriesImage(ch.history[i])
  /\ \A r \in chatReqs :
       /\ ~CarriesImage(Last(r.contents))
       /\ r.contents[1] =
            Turn("user", << InlinePart("image/jpeg", r.image), TextPart(SEED_CAPTION) >>)

\* a follow-up request is outstanding in a session that has an exchange in its history
C26_Witness ==
  \E r \in chatReqs :
    /\ chats[r.chat].mounted
    /\ Len(chats[r.chat].history) = 4
    /\ Len(r.contents) = 5

\* C29: the loading flag of a mounted chat is true exactly while a request that
\* chat started is outstanding; so every exchange whose call completes, with a
\* reply, a fallback or an exception, leaves the flag false
C29_LoadingWhileOutstanding ==
  \A c \in ChatIds :
    (chats[c].alive /\ chats[c].mounted) =>
      (chats[c].isLoading <=> Outstanding(chatReqs, c))

\* an exchange ended in the catch block: the apology is the last message, the
\* flag is false and sending is possible again
C29_Witness ==
  \E c \in ChatIds :
    /\ chats[c].alive /\ chats[c].mounted
    /\ Len(chats[c].messages) >= 3
    /\ Last(chats[c].messages) = Message("model", APOLOGY_TEXT)
    /\ ~chats[c].isLoading /\ ~Outstanding(chatReqs, c)

\* the three views of the main area (part_002, render): the upload zone, the
\* loading state, the results
UploadView == analysis = NullAnalysis /\ ~isAnalyzing
LoadingView == isAnalyzing
ResultsView == Visible(analysis, selectedImage)

\* C27: in every reachable state of the App a stored analysis implies a stored
\* image, and the main area shows the upload, the loading or the results view
C27_AnalysisImpliesImage ==
  /\ analysis # NullAnalysis => selectedImage # NoImage
  /\ UploadView \/ LoadingView \/ ResultsView

\* analyzeRoomImage threw from its catch block: the call was issued with a
\* credential and ended in an error
AnalyzeFailedInTry ==
  /\ call.op = "analyzeRoomImage" /\ call.pc = "settled"
  /\ call.key /\ call.result.kind = "throw"

\* generateContent itself threw, with the message call.response.text
UpstreamThrew == AnalyzeFailedInTry /\ call.response.kind = "throw"

MatchesRegion(m) ==
  \/ Contains(m, KW_USER_LOCATION) \/ Contains(m, KW_FAILED_PRECONDITION)
  \/ Contains(m, KW_REGION) \/ Contains(m, KW_LOCATION)
  \/ (Contains(m, KW_400) /\ Contains(m, KW_NOT_SUPPORTED))
MatchesRate(m) == Contains(m, KW_QUOTA) \/ Contains(m, KW_429)
MatchesKey(m) == Contains(m, KW_API_KEY) \/ Contains(m, KW_INVALID)

\* C28: a failure inside the try block of analyzeRoomImage is rethrown as one of
\* the four fixed messages, chosen by the error text: the region message when a
\* region pattern is found, else the rate-limit message for "quota" or "429", else
\* the credential message for "API_KEY" or "invalid", else the generic message; a
\* text with a region and a rate-limit pattern gives the region message
C28_ClassificationPriority ==
  /\ AnalyzeFailedInTry =>
       call.result.text \in {ERR_REGION, ERR_RATE, ERR_KEY, ERR_GENERIC}
  /\ UpstreamThrew =>
       LET m == call.response.text
           msg == call.result.text
       IN /\ msg = ERR_REGION <=> MatchesRegion(m)
          /\ msg = ERR_RATE <=> (~MatchesRegion(m) /\ MatchesRate(m))
          /\ msg = ERR_KEY <=> (~MatchesRegion(m) /\ ~MatchesRate(m) /\ MatchesKey(m))
          /\ msg = ERR_GENERIC <=>
               (~MatchesRegion(m) /\ ~MatchesRate(m) /\ ~MatchesKey(m))

\* an upstream error naming a region pattern and a rate-limit pattern was
\* reported as the region error
C28_Witness ==
  /\ UpstreamThrew
  /\ MatchesRegion(call.response.text) /\ MatchesRate(call.response.text)
  /\ call.result.text = ERR_REGION

\* the turns of a request before its new user turn
RequestHistory(r) == SubSeq(r.contents, 1, Len(r.contents) - 1)

\* C30: when the reply to a request arrives, the history it may be appended to is
\* the one the request was built from, that of the component that issued it, with
\* the image of that component; every other component, the one of a session that
\* began after a reset or with a new image included, keeps its transcript and its
\* history as they are
C30_LateReplyStaysInItsSession ==
  [][\A r \in chatReqs :
       r \notin chatReqs' =>
         /\ chats[r.chat].alive
         /\ chats[r.chat].image = r.image
         /\ chats[r.chat].history = RequestHistory(r)
         /\ \A c \in ChatIds \ {r.chat} : chats'[c] = chats[c]
         /\ ~chats[r.chat].mounted =>
              \A c \in ChatIds :
                chats'[c].mounted =>
                  /\ chats'[c].messages = chats[c].messages
                  /\ chats'[c].history = chats[c].history]_vars

\* the reply to a request of the session of the first image is still to come
\* while the session of the second image is shown and has an exchange of its own
C30_Witness ==
  \E r \in chatReqs, c \in ChatIds :
    /\ r.image = 1 /\ ~chats[r.chat].mounted
    /\ chats[c].mounted /\ chats[c].image = 2
    /\ chats[c].exchanges = 1

====
